---- MODULE Spec2Model ----
(***************************************************************************)
(* Model of src/main.py: the background ASR model loader                   *)
(* (preload_asr_background, under asr_lock) running concurrently with the  *)
(* Flask handlers healthz and speech2text, which read the loader's flags   *)
(* without synchronisation.  Every read or write of a module global is a   *)
(* separate step, since the interpreter may switch threads between them.   *)
(***************************************************************************)
EXTENDS Integers, FiniteSets, Sequences, TLC

\* Number of threads that call preload_asr_background.
NumLoaders == 2
\* Number of request-handling threads of the web server.
NumReqs == 1

Loaders == 1..NumLoaders
Reqs == 1..NumReqs

\* Python's None, for the globals and locals that may hold it.
None == "None"

\* The two places of a loader run that may raise, as str(e).
LoaderErrors == {"download failed", "load failed"}

VARIABLES
  asr_lock,          \* 0 when free, else the loader thread holding it
  asr_pipe,          \* None or the pipeline handle
  model_loading,
  model_ready,
  model_load_error,  \* None or a message
  asr_dir,           \* TRUE when WORKSPACE/asr exists and is not empty
  pc,                \* position of each loader thread
  exc,               \* the exception each loader thread caught, or None
  bucket,            \* the objects the remote store lists under the prefix
  dpc,               \* position of the running download_from_gcs call
  fut,               \* the state of the future submitted for each object
  got,               \* the futures the as_completed loop has taken
  files,             \* the relative paths written under local_dir
  rpc,               \* position of each request thread
  body,              \* the request body speech2text read, or NoBody
  check,             \* loader status at the instant line 136 read model_ready
  did,               \* the calls of lines 143-155 the request has made
  status,            \* healthz's local variable
  resp,              \* the response under construction, then returned
  late               \* history: the request began after a failed run, and
                     \* no loader thread has been triggered since

\* The state of one call of download_from_gcs.
dlVars == <<bucket, dpc, fut, got, files>>

loaderVars == <<asr_lock, asr_pipe, model_loading, model_ready,
                model_load_error, asr_dir, pc, exc, dlVars>>

reqVars == <<rpc, body, check, did, status, resp, late>>

vars == <<asr_lock, asr_pipe, model_loading, model_ready, model_load_error,
          asr_dir, pc, exc, bucket, dpc, fut, got, files, rpc, body, check,
          did, status, resp, late>>

\* Positions between line 96 (model_loading = True) and line 118.
BodyPcs == {"exists", "download", "load", "setready", "except", "finally"}

InBody(t) == pc[t] \in BodyPcs

\* The loader threads that start_preload_thread has started, and those of
\* them that have returned from preload_asr_background.
Started == {t \in Loaders : pc[t] # "idle"}
Finished == {t \in Loaders : pc[t] \in {"returned", "done"}}

\* The threads whose run ended in the except clause.
FailedRuns == {t \in Loaders : pc[t] = "done" /\ exc[t] # None}

\* A run has failed, no loader thread is active and the model is not ready.
FailedQuiet == FailedRuns # {} /\ Started = Finished /\ ~model_ready

\* ---------------------------------------------------------------------
\* The loader: preload_asr_background, run by each thread that
\* start_preload_thread creates.
\* ---------------------------------------------------------------------

\* start_preload_thread: a new thread is about to call
\* preload_asr_background.  (A trigger ends the period that late records.)
StartPreloadThread(t) ==
  /\ pc[t] = "idle"
  /\ pc' = [pc EXCEPT ![t] = "lock"]
  /\ late' = [r \in Reqs |-> FALSE]
  /\ UNCHANGED <<asr_lock, asr_pipe, model_loading, model_ready,
                 model_load_error, asr_dir, exc, body, check, did, status,
                 resp, rpc, dlVars>>

\* "with asr_lock:" blocks until the lock is free, then takes it.
LockAcquire(t) ==
  /\ pc[t] = "lock"
  /\ asr_lock = 0
  /\ asr_lock' = t
  /\ pc' = [pc EXCEPT ![t] = "guard"]
  /\ UNCHANGED <<asr_pipe, model_loading, model_ready, model_load_error,
                 asr_dir, exc, reqVars, dlVars>>

\* Mutant: the guard is missing.
GuardMissing(t) ==
  /\ pc[t] = "guard"
  /\ pc' = [pc EXCEPT ![t] = "setloading"]
  /\ UNCHANGED <<asr_lock, asr_pipe, model_loading, model_ready,
                 model_load_error, asr_dir, exc, reqVars, dlVars>>

\* Mutant: the guard tests model_loading only.
GuardLoadingOnly(t) ==
  /\ pc[t] = "guard"
  /\ IF model_loading
       THEN /\ pc' = [pc EXCEPT ![t] = "returned"]
            /\ asr_lock' = 0
       ELSE /\ pc' = [pc EXCEPT ![t] = "setloading"]
            /\ UNCHANGED asr_lock
  /\ UNCHANGED <<asr_pipe, model_loading, model_ready, model_load_error,
                 asr_dir, exc, reqVars, dlVars>>

\* "if model_ready or model_loading: return", which leaves the with block
\* and so releases the lock.
Guard(t) ==
  /\ pc[t] = "guard"
  /\ IF model_ready \/ model_loading
       THEN /\ pc' = [pc EXCEPT ![t] = "returned"]
            /\ asr_lock' = 0
       ELSE /\ pc' = [pc EXCEPT ![t] = "setloading"]
            /\ UNCHANGED asr_lock
  /\ UNCHANGED <<asr_pipe, model_loading, model_ready, model_load_error,
                 asr_dir, exc, reqVars, dlVars>>

\* "model_loading = True", and the end of the with block.
SetLoading(t) ==
  /\ pc[t] = "setloading"
  /\ model_loading' = TRUE
  /\ asr_lock' = 0
  /\ pc' = [pc EXCEPT ![t] = "exists"]
  /\ UNCHANGED <<asr_pipe, model_ready, model_load_error, asr_dir, exc,
                 reqVars, dlVars>>

\* "if not os.path.exists(local_asr_dir) or not os.listdir(local_asr_dir)".
CheckLocalDir(t) ==
  /\ pc[t] = "exists"
  /\ pc' = [pc EXCEPT ![t] = IF asr_dir THEN "load" ELSE "download"]
  /\ UNCHANGED <<asr_lock, asr_pipe, model_loading, model_ready,
                 model_load_error, asr_dir, exc, reqVars, dlVars>>

\* download_from_gcs: creating the client or listing the blobs raises; or
\* it returns without having written a file (nothing listed, or every
\* object skipped or failed); or it returns having written some.
Download(t) ==
  /\ pc[t] = "download"
  /\ \/ /\ exc' = [exc EXCEPT ![t] = "download failed"]
        /\ pc' = [pc EXCEPT ![t] = "except"]
        /\ UNCHANGED asr_dir
     \/ /\ pc' = [pc EXCEPT ![t] = "load"]
        /\ UNCHANGED <<asr_dir, exc>>
     \/ /\ asr_dir' = TRUE
        /\ pc' = [pc EXCEPT ![t] = "load"]
        /\ UNCHANGED exc
  /\ UNCHANGED <<asr_lock, asr_pipe, model_loading, model_ready,
                 model_load_error, reqVars, dlVars>>

\* Mutant: the "global asr_pipe" statement is missing, so the pipeline is
\* bound to a local name.
LoadAsrModelLocal(t) ==
  /\ pc[t] = "load"
  /\ \/ /\ exc' = [exc EXCEPT ![t] = "load failed"]
        /\ pc' = [pc EXCEPT ![t] = "except"]
     \/ /\ asr_dir
        /\ pc' = [pc EXCEPT ![t] = "setready"]
        /\ UNCHANGED exc
  /\ UNCHANGED <<asr_lock, asr_pipe, model_loading, model_ready,
                 model_load_error, asr_dir, reqVars, dlVars>>

\* load_asr_model: from_pretrained or pipeline raises (always so when the
\* directory holds no file), or asr_pipe is assigned.
LoadAsrModel(t) ==
  /\ pc[t] = "load"
  /\ \/ /\ exc' = [exc EXCEPT ![t] = "load failed"]
        /\ pc' = [pc EXCEPT ![t] = "except"]
        /\ UNCHANGED asr_pipe
     \/ /\ asr_dir
        /\ asr_pipe' = "pipeline"
        /\ pc' = [pc EXCEPT ![t] = "setready"]
        /\ UNCHANGED exc
  /\ UNCHANGED <<asr_lock, model_loading, model_ready, model_load_error,
                 asr_dir, reqVars, dlVars>>

\* Mutant: the wrong flag is written.
SetReadyResetsLoading(t) ==
  /\ pc[t] = "setready"
  /\ model_loading' = FALSE
  /\ pc' = [pc EXCEPT ![t] = "finally"]
  /\ UNCHANGED <<asr_lock, asr_pipe, model_ready, model_load_error,
                 asr_dir, exc, reqVars, dlVars>>

\* "model_ready = True".
SetReady(t) ==
  /\ pc[t] = "setready"
  /\ model_ready' = TRUE
  /\ pc' = [pc EXCEPT ![t] = "finally"]
  /\ UNCHANGED <<asr_lock, asr_pipe, model_loading, model_load_error,
                 asr_dir, exc, reqVars, dlVars>>

\* Mutant: the except clause only logs.
ExceptOnlyLogs(t) ==
  /\ pc[t] = "except"
  /\ pc' = [pc EXCEPT ![t] = "finally"]
  /\ UNCHANGED <<asr_lock, asr_pipe, model_loading, model_ready,
                 model_load_error, asr_dir, exc, reqVars, dlVars>>

\* "except Exception as e: model_load_error = str(e)".
Except(t) ==
  /\ pc[t] = "except"
  /\ model_load_error' = exc[t]
  /\ pc' = [pc EXCEPT ![t] = "finally"]
  /\ UNCHANGED <<asr_lock, asr_pipe, model_loading, model_ready, asr_dir,
                 exc, reqVars, dlVars>>

\* Mutant: no finally clause resets the flag.
FinallyNoReset(t) ==
  /\ pc[t] = "finally"
  /\ pc' = [pc EXCEPT ![t] = "done"]
  /\ UNCHANGED <<asr_lock, asr_pipe, model_loading, model_ready,
                 model_load_error, asr_dir, exc, reqVars, dlVars>>

\* "finally: model_loading = False", and the function returns.
Finally(t) ==
  /\ pc[t] = "finally"
  /\ model_loading' = FALSE
  /\ pc' = [pc EXCEPT ![t] = "done"]
  /\ UNCHANGED <<asr_lock, asr_pipe, model_ready, model_load_error,
                 asr_dir, exc, reqVars, dlVars>>

\* One step of loader thread t once it has been started.
LoaderStep(t) ==
  \/ LockAcquire(t)
  \/ Guard(t)
  \/ SetLoading(t)
  \/ CheckLocalDir(t)
  \/ Download(t)
  \/ LoadAsrModel(t)
  \/ SetReady(t)
  \/ Except(t)
  \/ Finally(t)

\* ---------------------------------------------------------------------
\* download_from_gcs, step by step.  Download above is the whole call as
\* the rest of the loader sees it; the actions below are its listing, its
\* pool of _dl workers and its as_completed loop.  A path is the sequence
\* of its segments.
\* ---------------------------------------------------------------------

\* ASR_PREFIX (line 23).
Prefix == <<"model", "finetuned-seamlessm4t-burmese">>

\* The objects the store may hold under the prefix: a file of the model, a
\* zero-byte object, a file under checkpoint/ at the top of the prefix, and
\* a file under a checkpoint/ directory further down.
AllBlobs ==
  { [name |-> Prefix \o <<"config.json">>, size |-> 1],
    [name |-> Prefix \o <<"empty.bin">>, size |-> 0],
    [name |-> Prefix \o <<"checkpoint", "optimizer.bin">>, size |-> 1],
    [name |-> Prefix \o <<"runs", "checkpoint", "optimizer.bin">>,
     size |-> 1] }

\* os.path.relpath(name, prefix) for a name that lies under the prefix.
RelPath(name, prefix) == SubSeq(name, Len(prefix) + 1, Len(name))

\* rel.startswith("checkpoint/") on the text of a relative path.
StartsWithCheckpoint(rel) == Len(rel) > 1 /\ rel[1] = "checkpoint"

\* The loader thread's futures before anything is submitted.
NoFutures == [b \in AllBlobs |-> "none"]

\* Lines 39-60: the client is created and the prefix listed, which may
\* raise; with nothing listed the call returns (line 44); else the
\* directory is made and one _dl per object is submitted to the pool.
DlList(t) ==
  /\ pc[t] = "download"
  /\ dpc = "idle"
  /\ \/ /\ exc' = [exc EXCEPT ![t] = "download failed"]
        /\ pc' = [pc EXCEPT ![t] = "except"]
        /\ UNCHANGED <<dpc, fut, got, files>>
     \/ /\ bucket = {}
        /\ pc' = [pc EXCEPT ![t] = "load"]
        /\ UNCHANGED <<exc, dpc, fut, got, files>>
     \/ /\ bucket # {}
        /\ dpc' = "collect"
        /\ fut' = [b \in AllBlobs |->
                     IF b \in bucket THEN "pending" ELSE "none"]
        /\ got' = {}
        /\ files' = {}
        /\ UNCHANGED <<pc, exc>>
  /\ UNCHANGED <<asr_lock, asr_pipe, model_loading, model_ready,
                 model_load_error, asr_dir, bucket, reqVars>>

\* Lines 48-57: a pool thread runs _dl(blob).  A zero-byte object and one
\* whose relative path starts with checkpoint/ are skipped; for any other
\* download_to_filename writes the file or raises.
DlWorker(t, b) ==
  /\ pc[t] = "download"
  /\ dpc = "collect"
  /\ fut[b] = "pending"
  /\ IF b.size = 0 \/ StartsWithCheckpoint(RelPath(b.name, Prefix))
       THEN /\ fut' = [fut EXCEPT ![b] = "done"]
            /\ UNCHANGED <<files, asr_dir>>
       ELSE \/ /\ files' = files \cup {RelPath(b.name, Prefix)}
               /\ asr_dir' = TRUE
               /\ fut' = [fut EXCEPT ![b] = "done"]
            \/ /\ fut' = [fut EXCEPT ![b] = "raised"]
               /\ UNCHANGED <<files, asr_dir>>
  /\ UNCHANGED <<asr_lock, asr_pipe, model_loading, model_ready,
                 model_load_error, pc, exc, bucket, dpc, got, reqVars>>

\* Mutant: f.result() is called outside a try block.
DlCollectNoCatch(t, b) ==
  /\ pc[t] = "download"
  /\ dpc = "collect"
  /\ b \notin got
  /\ fut[b] \in {"done", "raised"}
  /\ IF fut[b] = "raised"
       THEN /\ exc' = [exc EXCEPT ![t] = "download failed"]
            /\ pc' = [pc EXCEPT ![t] = "except"]
            /\ dpc' = "idle"
            /\ UNCHANGED got
       ELSE /\ got' = got \cup {b}
            /\ UNCHANGED <<pc, exc, dpc>>
  /\ UNCHANGED <<asr_lock, asr_pipe, model_loading, model_ready,
                 model_load_error, asr_dir, bucket, fut, files, reqVars>>

\* Lines 61-65: as_completed yields a future that has finished; its
\* exception, if any, is caught and logged.
DlCollect(t, b) ==
  /\ pc[t] = "download"
  /\ dpc = "collect"
  /\ b \notin got
  /\ fut[b] \in {"done", "raised"}
  /\ got' = got \cup {b}
  /\ UNCHANGED <<asr_lock, asr_pipe, model_loading, model_ready,
                 model_load_error, asr_dir, pc, exc, bucket, dpc, fut,
                 files, reqVars>>

\* Lines 59 and 67: the loop has taken every future, the with block ends
\* and the call returns.
DlReturn(t) ==
  /\ pc[t] = "download"
  /\ dpc = "collect"
  /\ got = bucket
  /\ dpc' = "idle"
  /\ pc' = [pc EXCEPT ![t] = "load"]
  /\ UNCHANGED <<asr_lock, asr_pipe, model_loading, model_ready,
                 model_load_error, asr_dir, exc, bucket, fut, got, files,
                 reqVars>>

\* One step of loader thread t, or of a pool thread working for it.
DownloadingLoaderStep(t) ==
  \/ LockAcquire(t)
  \/ Guard(t)
  \/ SetLoading(t)
  \/ CheckLocalDir(t)
  \/ DlList(t)
  \/ \E b \in AllBlobs : DlWorker(t, b)
  \/ \E b \in AllBlobs : DlCollect(t, b)
  \/ DlReturn(t)
  \/ LoadAsrModel(t)
  \/ SetReady(t)
  \/ Except(t)
  \/ Finally(t)

\* ---------------------------------------------------------------------
\* Requests.  A request thread serves one request at a time, GET /healthz
\* or POST /speech2text, and then the next.
\* ---------------------------------------------------------------------

NoBody == [kind |-> "unread", audio |-> "missing", format |-> "missing",
           url |-> "missing"]

\* Request bodies as request.get_json(silent=True) sees them: nothing it
\* can parse ("absent": no body, or not JSON; "multipart": a form upload
\* with a file field holding audio; "raw_audio": audio bytes sent with
\* Content-Type audio/*), a falsy JSON value that is not an object
\* ("falsy": [], "", 0, false, null), a truthy one ("truthy": a non-empty
\* list or string, a non-zero number, true), or an object.
\* audio is the object's audio_base64 value: missing, the empty string, the
\* base64 text of WAV bytes, of M4A bytes, or of bytes that are no audio, a
\* text whose padding is incorrect, or a text of characters outside the
\* base64 alphabet.  format is its format value, url its url value.
Bodies ==
  [kind : {"absent", "multipart", "raw_audio", "falsy", "truthy"},
   audio : {"missing"}, format : {"missing"}, url : {"missing"}]
  \cup
  [kind : {"object"},
   audio : {"missing", "", "b64(wav)", "b64(m4a)", "b64(junk)", "badpad",
            "nonalpha"},
   format : {"missing", "wav", "m4a"}, url : {"missing"}]
  \cup
  [kind : {"object"}, audio : {"missing", "b64(wav)"},
   format : {"missing"}, url : {"present"}]

\* A response: the HTTP status and the fields of its JSON body (None for a
\* field the body does not have); json is FALSE for the error page Flask
\* sends when an exception leaves the handler.
NoResp == [code |-> 0, json |-> FALSE, status |-> None, error |-> None,
           loading |-> None, error_details |-> None, text |-> None]

\* The loader status as healthz defines it, on the flags of one instant.
Status == IF model_ready THEN "ready"
          ELSE IF model_loading THEN "loading" ELSE "not_loaded"

\* A request arrives and Flask routes it to healthz.
HealthzBegin(r) ==
  /\ rpc[r] = "idle"
  /\ rpc' = [rpc EXCEPT ![r] = "h131"]
  /\ late' = [late EXCEPT ![r] = FailedQuiet]
  /\ UNCHANGED <<loaderVars, body, check, did, status, resp>>

\* Line 131, first read: "ready" if model_ready.
HealthzReadReady(r) ==
  /\ rpc[r] = "h131"
  /\ IF model_ready
       THEN /\ status' = [status EXCEPT ![r] = "ready"]
            /\ rpc' = [rpc EXCEPT ![r] = "h132"]
       ELSE /\ rpc' = [rpc EXCEPT ![r] = "h131b"]
            /\ UNCHANGED status
  /\ UNCHANGED <<loaderVars, body, check, did, resp, late>>

\* Mutant: the two labels are swapped.
HealthzLabelsSwapped(r) ==
  /\ rpc[r] = "h131b"
  /\ status' = [status EXCEPT ![r] =
                  IF model_loading THEN "not_loaded" ELSE "loading"]
  /\ rpc' = [rpc EXCEPT ![r] = "h132"]
  /\ UNCHANGED <<loaderVars, body, check, did, resp, late>>

\* Line 131, second read: "loading" if model_loading else "not_loaded".
HealthzReadLoading(r) ==
  /\ rpc[r] = "h131b"
  /\ status' = [status EXCEPT ![r] =
                  IF model_loading THEN "loading" ELSE "not_loaded"]
  /\ rpc' = [rpc EXCEPT ![r] = "h132"]
  /\ UNCHANGED <<loaderVars, body, check, did, resp, late>>

\* Line 132: the body from status, the code from a new read of model_ready.
HealthzRespond(r) ==
  /\ rpc[r] = "h132"
  /\ resp' = [resp EXCEPT ![r] =
                [NoResp EXCEPT !.code = IF model_ready THEN 200 ELSE 503,
                               !.json = TRUE,
                               !.status = status[r]]]
  /\ rpc' = [rpc EXCEPT ![r] = "healthz_done"]
  /\ UNCHANGED <<loaderVars, body, check, did, status, late>>

\* jsonify's text of a Python bool.
JsonBool(b) == IF b THEN "true" ELSE "false"

\* base64.b64decode on the audio_base64 texts of Bodies: the bytes the
\* text encodes, or "Error" (binascii.Error) for incorrect padding.  Called
\* without validate=True it discards the characters outside the alphabet
\* and decodes what is left, here to no bytes at all.
B64Decode(a) ==
  CASE a = "b64(wav)" -> "wav"
    [] a = "b64(m4a)" -> "m4a"
    [] a = "b64(junk)" -> "junk"
    [] a = "nonalpha" -> "empty"
    [] OTHER -> "Error"

\* data.get("format", "wav") on a body.
Format(b) == IF b.format = "missing" THEN "wav" ELSE b.format

\* AudioSegment.from_file(bytes, format=fmt) succeeds when the bytes are
\* audio of the declared format.
Decodable(bytes, fmt) == bytes \in {"wav", "m4a"} /\ bytes = fmt

\* "except Exception as e: return jsonify({"error": str(e)}), 500".
ErrorResponse(msg) ==
  [NoResp EXCEPT !.code = 500, !.json = TRUE, !.error = msg]

\* A request arrives and Flask routes it to speech2text.
SpeechBegin(r) ==
  /\ rpc[r] = "idle"
  /\ rpc' = [rpc EXCEPT ![r] = "s136"]
  /\ late' = [late EXCEPT ![r] = FailedQuiet]
  /\ UNCHANGED <<loaderVars, body, check, did, status, resp>>

\* Mutant: no readiness check.
SpeechNoGate(r) ==
  /\ rpc[r] = "s136"
  /\ check' = [check EXCEPT ![r] = Status]
  /\ rpc' = [rpc EXCEPT ![r] = "s143"]
  /\ UNCHANGED <<loaderVars, body, did, status, resp, late>>

\* Line 136: "if not model_ready".
SpeechCheckReady(r) ==
  /\ rpc[r] = "s136"
  /\ check' = [check EXCEPT ![r] = Status]
  /\ rpc' = [rpc EXCEPT ![r] = IF model_ready THEN "s143" ELSE "s139"]
  /\ UNCHANGED <<loaderVars, body, did, status, resp, late>>

\* Line 139: the dict's "loading" entry reads model_loading.
SpeechReadLoading(r) ==
  /\ rpc[r] = "s139"
  /\ resp' = [resp EXCEPT ![r].loading = JsonBool(model_loading)]
  /\ rpc' = [rpc EXCEPT ![r] = "s140"]
  /\ UNCHANGED <<loaderVars, body, check, did, status, late>>

\* Mutant: the error is cleared once it has been reported.
SpeechNotReadyClearsError(r) ==
  /\ rpc[r] = "s140"
  /\ resp' = [resp EXCEPT ![r] =
                [@ EXCEPT !.code = 503, !.json = TRUE,
                          !.error = "model loading",
                          !.error_details = model_load_error]]
  /\ rpc' = [rpc EXCEPT ![r] = "speech_done"]
  /\ model_load_error' = None
  /\ UNCHANGED <<asr_lock, asr_pipe, model_loading, model_ready, asr_dir,
                 pc, exc, dlVars, body, check, did, status, late>>

\* Lines 140-141: "error_details" reads model_load_error; 503 is returned.
SpeechNotReady(r) ==
  /\ rpc[r] = "s140"
  /\ resp' = [resp EXCEPT ![r] =
                [@ EXCEPT !.code = 503, !.json = TRUE,
                          !.error = "model loading",
                          !.error_details = model_load_error]]
  /\ rpc' = [rpc EXCEPT ![r] = "speech_done"]
  /\ UNCHANGED <<loaderVars, body, check, did, status, late>>

\* Lines 143-145: "data = request.get_json(silent=True) or {}", then
\* data.get twice.  A truthy value that is no dict has no get: the
\* AttributeError is raised outside the try block and leaves the handler.
SpeechGetJson(r) ==
  /\ rpc[r] = "s143"
  /\ \E b \in Bodies :
       /\ body' = [body EXCEPT ![r] = b]
       /\ IF b.kind = "truthy"
            THEN /\ resp' = [resp EXCEPT ![r] = [NoResp EXCEPT !.code = 500]]
                 /\ rpc' = [rpc EXCEPT ![r] = "speech_done"]
            ELSE /\ rpc' = [rpc EXCEPT ![r] = "s147"]
                 /\ UNCHANGED resp
  /\ did' = [did EXCEPT ![r] = @ \cup {"get_json"}]
  /\ UNCHANGED <<loaderVars, check, status, late>>

\* Lines 147-148: "if not audio_b64".
SpeechCheckAudio(r) ==
  /\ rpc[r] = "s147"
  /\ IF body[r].audio \in {"missing", ""}
       THEN /\ resp' = [resp EXCEPT ![r] =
                          [NoResp EXCEPT !.code = 400, !.json = TRUE,
                                         !.error = "missing 'audio_base64'"]]
            /\ rpc' = [rpc EXCEPT ![r] = "speech_done"]
       ELSE /\ rpc' = [rpc EXCEPT ![r] = "s151"]
            /\ UNCHANGED resp
  /\ UNCHANGED <<loaderVars, body, check, did, status, late>>

\* Line 151: base64.b64decode(audio_b64), inside the try block.
SpeechB64Decode(r) ==
  /\ rpc[r] = "s151"
  /\ IF B64Decode(body[r].audio) = "Error"
       THEN /\ resp' = [resp EXCEPT ![r] = ErrorResponse("Incorrect padding")]
            /\ rpc' = [rpc EXCEPT ![r] = "speech_done"]
       ELSE /\ rpc' = [rpc EXCEPT ![r] = "s152"]
            /\ UNCHANGED resp
  /\ did' = [did EXCEPT ![r] = @ \cup {"b64decode"}]
  /\ UNCHANGED <<loaderVars, body, check, status, late>>

\* Line 152: AudioSegment.from_file(io.BytesIO(audio_bytes), format=fmt).
SpeechFromFile(r) ==
  /\ rpc[r] = "s152"
  /\ IF Decodable(B64Decode(body[r].audio), Format(body[r]))
       THEN /\ rpc' = [rpc EXCEPT ![r] = "s153"]
            /\ UNCHANGED resp
       ELSE /\ resp' = [resp EXCEPT ![r] = ErrorResponse("decoding failed")]
            /\ rpc' = [rpc EXCEPT ![r] = "speech_done"]
  /\ did' = [did EXCEPT ![r] = @ \cup {"from_file"}]
  /\ UNCHANGED <<loaderVars, body, check, status, late>>

\* Line 153: "tempfile.NamedTemporaryFile(...)".  The module does not
\* import tempfile (lines 1-15), so the name lookup raises NameError, which
\* the except clause turns into a 500; lines 154-157 are never reached.
SpeechTempfile(r) ==
  /\ rpc[r] = "s153"
  /\ resp' = [resp EXCEPT ![r] =
                ErrorResponse("name 'tempfile' is not defined")]
  /\ rpc' = [rpc EXCEPT ![r] = "speech_done"]
  /\ UNCHANGED <<loaderVars, body, check, did, status, late>>

\* The response has been sent; the thread waits for the next request.
NextRequest(r) ==
  /\ rpc[r] \in {"healthz_done", "speech_done"}
  /\ rpc' = [rpc EXCEPT ![r] = "idle"]
  /\ body' = [body EXCEPT ![r] = NoBody]
  /\ check' = [check EXCEPT ![r] = None]
  /\ did' = [did EXCEPT ![r] = {}]
  /\ status' = [status EXCEPT ![r] = None]
  /\ resp' = [resp EXCEPT ![r] = NoResp]
  /\ late' = [late EXCEPT ![r] = FALSE]
  /\ UNCHANGED loaderVars

RequestStep(r) ==
  \/ HealthzBegin(r)
  \/ HealthzReadReady(r)
  \/ HealthzReadLoading(r)
  \/ HealthzRespond(r)
  \/ SpeechBegin(r)
  \/ SpeechCheckReady(r)
  \/ SpeechReadLoading(r)
  \/ SpeechNotReady(r)
  \/ SpeechGetJson(r)
  \/ SpeechCheckAudio(r)
  \/ SpeechB64Decode(r)
  \/ SpeechFromFile(r)
  \/ SpeechTempfile(r)
  \/ NextRequest(r)

\* ---------------------------------------------------------------------
\* The program.
\* ---------------------------------------------------------------------

\* The module has been imported: the globals of lines 29-35, no thread
\* started yet; the cache directory of the container may already hold the
\* model.  (Spec takes download_from_gcs as the one step Download, which
\* does not look at the bucket.)
Init ==
  /\ asr_lock = 0
  /\ asr_pipe = None
  /\ model_loading = FALSE
  /\ model_ready = FALSE
  /\ model_load_error = None
  /\ asr_dir \in BOOLEAN
  /\ pc = [t \in Loaders |-> "idle"]
  /\ exc = [t \in Loaders |-> None]
  /\ bucket = {}
  /\ dpc = "idle"
  /\ fut = NoFutures
  /\ got = {}
  /\ files = {}
  /\ rpc = [r \in Reqs |-> "idle"]
  /\ body = [r \in Reqs |-> NoBody]
  /\ check = [r \in Reqs |-> None]
  /\ did = [r \in Reqs |-> {}]
  /\ status = [r \in Reqs |-> None]
  /\ resp = [r \in Reqs |-> NoResp]
  /\ late = [r \in Reqs |-> FALSE]

Next ==
  \/ \E t \in Loaders : StartPreloadThread(t)
  \/ \E t \in Loaders : LoaderStep(t)
  \/ \E r \in Reqs : RequestStep(r)

Spec == Init /\ [][Next]_vars

\* The scheduler runs every started loader thread again and again, and the
\* download and the model construction each return or raise.
FairSpec == Spec /\ \A t \in Loaders : WF_vars(LoaderStep(t))

\* The loader threads alone, under the same scheduling.  No request step
\* writes a variable a loader step reads, so the loader behaves the same
\* with and without the requests.
LoaderNext ==
  \/ \E t \in Loaders : StartPreloadThread(t)
  \/ \E t \in Loaders : LoaderStep(t)

FairLoaderSpec ==
  Init /\ [][LoaderNext]_vars /\ \A t \in Loaders : WF_vars(LoaderStep(t))

\* The loader threads with download_from_gcs step by step: a fresh
\* container (nothing in the cache directory) and any set of objects
\* under the prefix.
DownloadInit ==
  /\ asr_lock = 0
  /\ asr_pipe = None
  /\ model_loading = FALSE
  /\ model_ready = FALSE
  /\ model_load_error = None
  /\ asr_dir = FALSE
  /\ pc = [t \in Loaders |-> "idle"]
  /\ exc = [t \in Loaders |-> None]
  /\ bucket \in SUBSET AllBlobs
  /\ dpc = "idle"
  /\ fut = NoFutures
  /\ got = {}
  /\ files = {}
  /\ rpc = [r \in Reqs |-> "idle"]
  /\ body = [r \in Reqs |-> NoBody]
  /\ check = [r \in Reqs |-> None]
  /\ did = [r \in Reqs |-> {}]
  /\ status = [r \in Reqs |-> None]
  /\ resp = [r \in Reqs |-> NoResp]
  /\ late = [r \in Reqs |-> FALSE]

DownloadNext ==
  \/ \E t \in Loaders : StartPreloadThread(t)
  \/ \E t \in Loaders : DownloadingLoaderStep(t)

DownloadSpec == DownloadInit /\ [][DownloadNext]_vars
\* ---------------------------------------------------------------------
\* Properties.
\* ---------------------------------------------------------------------

\* The loader threads that entered the download/load body (passed line 96).
Runs == {t \in Loaders : InBody(t) \/ pc[t] = "done"}

\* C1: at most one thread at a time is between line 96 and line 118, and a
\* call whose guard finds model_loading or model_ready true returns at once,
\* leaving model_loading, model_ready, model_load_error and asr_pipe as
\* they were and starting no download or load.
C1_GuardedReturn ==
  \A t \in Loaders :
    (pc[t] = "guard" /\ (model_ready \/ model_loading) /\ pc'[t] # pc[t])
      => /\ pc'[t] = "returned"
         /\ UNCHANGED <<model_loading, model_ready, model_load_error,
                        asr_pipe, asr_dir>>
C1_ExclusiveLoader ==
  /\ [](Cardinality({t \in Loaders : InBody(t)}) <= 1)
  /\ [][C1_GuardedReturn]_vars

\* C1 witness: one thread is in the body and another has returned early.
C1_Witness ==
  \E t, u \in Loaders : InBody(t) /\ pc[u] = "returned"

Terminal == model_ready \/ (~model_ready /\ model_load_error # None)

\* C3: under fair scheduling every run that has set model_loading reaches
\* the end of its finally block, where model_loading is false and the state
\* is terminal and stays so; model_loading never stays true forever.
C3_RunTerminates ==
  /\ \A t \in Loaders :
       InBody(t) ~> (pc[t] = "done" /\ ~model_loading /\ Terminal)
  /\ \A t \in Loaders : [](pc[t] = "done" => Terminal)
  /\ model_loading ~> ~model_loading

\* C3 witness: a run that failed has returned, with the flag reset.
C3_Witness ==
  \E t \in Loaders :
    pc[t] = "done" /\ exc[t] # None /\ ~model_loading /\ Terminal
\* The positions of speech2text after a readiness check that passed, and
\* after one that failed.
ReadyPathPcs == {"s143", "s147", "s151", "s152", "s153"}
NotReadyPathPcs == {"s139", "s140"}

\* C4: a request reads its body, decodes audio or goes on towards the
\* pipeline only if its check at line 136 read model_ready true; one whose
\* check read it false does none of these and its only way on is the 503
\* "model loading" response.
C4_ReadinessGate ==
  \A r \in Reqs :
    /\ (did[r] # {} \/ rpc[r] \in ReadyPathPcs) => check[r] = "ready"
    /\ check[r] \in {"loading", "not_loaded"} =>
         /\ did[r] = {}
         /\ rpc[r] \in NotReadyPathPcs \cup {"speech_done"}
         /\ rpc[r] = "speech_done" =>
              /\ resp[r].code = 503
              /\ resp[r].json
              /\ resp[r].error = "model loading"

\* C4 witness: a request whose check passed has decoded its audio, and (in
\* another state) one whose check failed has its 503.
C4_Witness ==
  \E r \in Reqs :
    /\ rpc[r] = "speech_done"
    /\ check[r] = "ready"
    /\ {"b64decode", "from_file"} \subseteq did[r]

C6_DocumentedStep ==
  Status' # Status =>
    \/ Status = "not_loaded" /\ Status' = "loading"
    \/ Status = "loading" /\ Status' = "ready"
    \/ Status = "loading" /\ Status' = "not_loaded"
         /\ model_load_error' # None
C6_StatusTransitions == [][C6_DocumentedStep]_vars

\* C6 witness: the status has gone not_loaded -> loading -> not_loaded.
C6_Witness ==
  FailedRuns # {} /\ Status = "not_loaded" /\ model_load_error # None

\* C7: a run in which the download or the model construction raised ends
\* by returning normally, and at its return model_load_error is the
\* exception's message, model_ready and model_loading are false and
\* asr_pipe is still None; the exception is handled in the except clause.
C7_FailedRunReturns ==
  \A t \in Loaders :
    (exc[t] # None /\ pc[t] = "finally" /\ pc'[t] # pc[t])
      => /\ pc'[t] = "done"
         /\ model_load_error' = exc[t]
         /\ ~model_ready'
         /\ ~model_loading'
         /\ Status' = "not_loaded"
         /\ asr_pipe' = None
C7_LoaderErrorCaptured ==
  /\ [](\A t \in Loaders :
          exc[t] # None => pc[t] \in {"except", "finally", "done"})
  /\ [][C7_FailedRunReturns]_vars

\* C7 witness: a run whose model construction raised has returned.
C7_Witness ==
  \E t \in Loaders :
    /\ pc[t] = "done"
    /\ exc[t] = "load failed"
    /\ model_load_error = "load failed"
    /\ ~model_ready /\ ~model_loading /\ asr_pipe = None

\* C8: after a failed run, as long as no loader thread is triggered, no
\* step changes the loader's state (so none starts a load or makes the
\* status ready), and a request that begins in that period gets 503: from
\* speech2text with loading false and error_details set, from healthz with
\* status "not_loaded".
C8_NoStepLoads ==
  (FailedQuiet /\ Started' = Started)
    => (FailedQuiet' /\ UNCHANGED loaderVars /\ Status' = "not_loaded")
C8_DegradedResponse ==
  \A r \in Reqs :
    late[r] =>
      /\ FailedQuiet
      /\ rpc[r] = "speech_done" =>
           /\ resp[r].code = 503
           /\ resp[r].loading = "false"
           /\ resp[r].error_details # None
           /\ did[r] = {}
      /\ rpc[r] = "healthz_done" =>
           /\ resp[r].code = 503
           /\ resp[r].status = "not_loaded"
C8_DegradedButServing ==
  /\ []C8_DegradedResponse
  /\ [][C8_NoStepLoads]_vars

\* C8 witness: a speech2text request that began after the failure has been
\* answered.
C8_Witness ==
  \E r \in Reqs :
    late[r] /\ rpc[r] = "speech_done" /\ resp[r].code = 503

\* C9 as stated: a request whose check at line 136 happened while the
\* status was loading gets 503 with loading true.
C9_LoadingReported ==
  \A r \in Reqs :
    (rpc[r] = "speech_done" /\ check[r] = "loading")
      => (resp[r].code = 503 /\ resp[r].loading = "true")

\* C10 as stated: every speech2text response is JSON with status 200, 400,
\* 500 or 503, and with an error field unless the status is 200.
C10_NoEscape ==
  \A r \in Reqs :
    rpc[r] = "speech_done" =>
      /\ resp[r].json
      /\ resp[r].code \in {200, 400, 500, 503}
      /\ resp[r].code # 200 => resp[r].error # None
\* A speech2text request whose readiness check passed and that has been
\* answered.
Answered(r) == rpc[r] = "speech_done" /\ check[r] = "ready"

\* The JSON object bodies whose input is missing or malformed: no
\* audio_base64 field, or a value that is not valid base64.
Malformed(b) ==
  /\ b.kind = "object"
  /\ b.url = "missing"
  /\ b.audio \in {"missing", "badpad", "nonalpha"}

\* C11 as stated: with the model ready, a request whose JSON body has no
\* audio_base64 field, or one that is not valid base64, gets 400 with an
\* error field.
C11_BadInputIs400 ==
  \A r \in Reqs :
    (Answered(r) /\ Malformed(body[r]))
      => (resp[r].code = 400 /\ resp[r].json /\ resp[r].error # None)

\* The bodies that carry valid base64 of audio decodable in the declared
\* format.
ValidAudio(b) ==
  /\ b.kind = "object"
  /\ B64Decode(b.audio) # "Error"
  /\ Decodable(B64Decode(b.audio), Format(b))

\* C12 as stated: with the model ready, a request carrying valid base64 of
\* audio decodable in the declared format gets 200 with the pipeline's
\* text.
C12_ValidAudioIs200 ==
  \A r \in Reqs :
    (Answered(r) /\ ValidAudio(body[r]))
      => (resp[r].code = 200 /\ resp[r].json /\ resp[r].text # None)
\* The fields of ModelState.
modelState == <<model_loading, model_ready, model_load_error, asr_pipe>>

\* C13: a step of a request handler (healthz or speech2text, whatever its
\* outcome) leaves model_loading, model_ready, model_load_error and
\* asr_pipe unchanged; a step that changes one of them is a loader
\* thread's.
C13_HandlerStep == rpc' # rpc => UNCHANGED modelState
C13_WriterStep == modelState' # modelState => pc' # pc
C13_HandlersOnlyRead == [][C13_HandlerStep /\ C13_WriterStep]_vars

\* C13 witness: a request has been answered 503 with the error details and
\* the error is still recorded.
C13_Witness ==
  \E r \in Reqs :
    /\ rpc[r] = "speech_done"
    /\ resp[r].code = 503
    /\ resp[r].error_details # None
    /\ model_load_error = resp[r].error_details
\* The bodies whose base64 decodes but whose bytes the transcoding library
\* cannot decode in the declared format (corrupt bytes, or another format
\* than declared).
TranscodeFails(b) ==
  /\ b.kind = "object"
  /\ B64Decode(b.audio) # "Error"
  /\ ~Decodable(B64Decode(b.audio), Format(b))

\* C14 as stated: a failure to decode or transcode the request's audio is
\* not answered with an error response for that failure.
C14_TranscodeErrorAbsorbed ==
  \A r \in Reqs :
    (Answered(r) /\ "from_file" \in did[r] /\ TranscodeFails(body[r]))
      => ~(resp[r].code = 500 /\ resp[r].error = "decoding failed")

\* The bodies that carry audio by one of the four transports: a multipart
\* file field, a raw audio/* body, a JSON url, a JSON audio_base64.
CarriesAudio(b) ==
  \/ b.kind \in {"multipart", "raw_audio"}
  \/ b.kind = "object" /\ (b.url = "present" \/ b.audio \notin {"missing", ""})

\* C15 as stated: with the model ready, the missing-audio 400 is returned
\* only to a request that carries audio by none of the four transports.
C15_MissingAudioOnlyWithoutAudio ==
  \A r \in Reqs :
    (Answered(r) /\ resp[r].code = 400) => ~CarriesAudio(body[r])
\* C18: whenever model_ready is true asr_pipe is not None, so a request
\* whose readiness check passed finds the pipeline handle assigned.
C18_ReadyImpliesPipeline ==
  /\ model_ready => asr_pipe # None
  /\ \A r \in Reqs : check[r] = "ready" => asr_pipe # None

\* C18 witness: the model is ready and a request has passed the check.
C18_Witness ==
  /\ model_ready
  /\ asr_pipe = "pipeline"
  /\ \E r \in Reqs : check[r] = "ready" /\ did[r] # {}

\* C19 as stated: model_loading and model_ready are never both true.
C19_FlagsExclusive == ~(model_loading /\ model_ready)
\* C16: once download_from_gcs has submitted the object downloads, it
\* leaves only by returning normally, after every submitted download has
\* finished (written, skipped or raised, in any order) and its result has
\* been taken; the loader thread then goes on to load_asr_model.  No
\* failure of an object download takes the loader to its except clause.
C16_LeavesByReturn ==
  \A t \in Loaders :
    (pc[t] = "download" /\ dpc = "collect" /\ pc'[t] # "download")
      => /\ pc'[t] = "load"
         /\ \A b \in bucket : fut[b] \in {"done", "raised"}
         /\ got = bucket
         /\ exc'[t] = None
C16_PartialFailureTolerated == [][C16_LeavesByReturn]_vars

\* C16 witness: the call has returned with one object written and another
\* failed, and the loader is about to construct the model.
C16_Witness ==
  \E t \in Loaders :
    /\ pc[t] = "load"
    /\ got = bucket
    /\ \E b, c \in bucket :
         /\ fut[b] = "raised"
         /\ fut[c] = "done"
         /\ RelPath(c.name, Prefix) \in files

\* A directory segment of the relative path is named checkpoint.
HasCheckpointSegment(rel) ==
  \E i \in 1..(Len(rel) - 1) : rel[i] = "checkpoint"

\* C17 as stated: an object whose _dl has finished without raising has
\* been written at its relative path if and only if its size is not zero
\* and no segment of that path is checkpoint/.
C17_SkipsEveryCheckpoint ==
  \A b \in bucket :
    fut[b] = "done" =>
      (RelPath(b.name, Prefix) \in files
         <=> (b.size # 0 /\ ~HasCheckpointSegment(RelPath(b.name, Prefix))))
====
